---- MODULE Spec2Model ----
(***************************************************************************)
(* Model of the ngPlacesAutocomplete directive                             *)
(* (src/src/ngPlacesAutocomplete.js): the link function's local state, the *)
(* scope bindings, the Google Autocomplete widget's filters, the requests  *)
(* in flight to the external services and the handlers the link function   *)
(* registers.                                                              *)
(*                                                                         *)
(* Texts are sequences of tokens (so that .length is Len).  A JS value     *)
(* that may be undefined/null is a record with a kind field k.             *)
(***************************************************************************)
EXTENDS Integers, Sequences, FiniteSets, TLC

\* ------------------------------------------------------------------ bounds
\* requests that may be in flight to the external services at one time
MaxPending == 2
\* focusout handlers that may be bound on the element at one time
MaxHandlers == 1

\* ------------------------------------------------------------- value domains
Absent == "absent"          \* a property the object does not have (undefined)
Null == "null"              \* the argument null of a widget setter
EmptyArray == "[]"          \* the argument [] of setTypes

EmptyText == <<>>
TypedText == <<"q">>
Addr1 == <<"A1">>
Addr2 == <<"A2">>
\* what the user can type into the field
Texts == {EmptyText, TypedText}

\* place results of the external services
Undef == [k |-> "undefined", reference |-> "", formatted_address |-> EmptyText,
          address_components |-> FALSE]
NullValue == [k |-> "null", reference |-> "",
              formatted_address |-> EmptyText, address_components |-> FALSE]
\* the place the widget reports when Enter is pressed without a selection:
\* {name: <text>}, no address_components
NameOnly == [k |-> "nameonly", reference |-> "",
             formatted_address |-> EmptyText, address_components |-> FALSE]
Place1 == [k |-> "place", reference |-> "r1", formatted_address |-> Addr1,
           address_components |-> TRUE]
Place2 == [k |-> "place", reference |-> "r2", formatted_address |-> Addr2,
           address_components |-> TRUE]
Places == {Place1, Place2}

\* prediction lists handed to listentoresult: null, [] or a non-empty list
NullList == [isNull |-> TRUE, items |-> <<>>]
PredictionLists ==
    {NullList,
     [isNull |-> FALSE, items |-> <<>>],
     [isNull |-> FALSE, items |-> <<Place1>>],
     [isNull |-> FALSE, items |-> <<Place2, Place1>>]}

\* result lists handed to the geocode callback
GeocodeLists == {<<>>, <<Place1>>, <<Place2, Place1>>}

\* scope.options: undefined, or an object with any subset of the keys
UndefOptions == [def |-> FALSE, types |-> Absent, bounds |-> Absent,
                 country |-> Absent, fields |-> Absent, watchEnter |-> Absent]
OptionsValues ==
    {UndefOptions} \cup
    [def : {TRUE}, types : {Absent, "geocode"}, bounds : {Absent, "bnds"},
     country : {Absent, "ca"}, fields : {Absent, "name"},
     watchEnter : {Absent, "true", "false"}]

\* the options values the host assigns in the selection flows
HostOptions ==
    {o \in OptionsValues :
        /\ o.def
        /\ o.bounds = Absent /\ o.fields = Absent
        /\ o.types = Absent /\ o.country = Absent
        /\ o.watchEnter # "false"}

\* scope.placeId
PlaceIds == {Absent, "abc123"}

\* scope.initialAddress: undefined or {lat, lng}
UndefAddress == [def |-> FALSE, lat |-> 0, lng |-> 0]
Addresses == {UndefAddress, [def |-> TRUE, lat |-> 40, lng |-> 74],
              [def |-> TRUE, lat |-> 0, lng |-> 74]}

\* defaultPlacesFields, the fixed list of thirteen field names
defaultPlacesFields == "defaultPlacesFields"

\* JS truthiness of an option / binding value
Truthy(v) == v # Absent

VARIABLES
    phase,              \* "linked": link ran, first digest due; "ready";
                        \* "failed": link threw at scope.options.fields
    options,            \* scope.options
    placeId,            \* scope.placeId
    initialAddress,     \* scope.initialAddress
    ngModel,            \* scope.ngModel, the Bound Value
    viewValue,          \* controller.$viewValue
    elementVal,         \* element.val(), the displayed field text
    details,            \* scope.details
    watchEnter,         \* var watchEnter
    opts,               \* var opts
    gPlace,             \* scope.gPlace: the widget's filters and its place
    highlighted,        \* the dropdown suggestion the widget has highlighted
    focused,            \* the input element has the focus
    focusoutHandlers,   \* the 'focusout' handlers bound on the element
    pending,            \* requests in flight, in the order they were issued
    emitted,            \* scope.$emit events of the last step
    console,            \* console.warn messages of the last step
    last                \* the handler that ran last and what it was given

vars == <<phase, options, placeId, initialAddress, ngModel, viewValue,
          elementVal, details, watchEnter, opts, gPlace, highlighted, focused,
          focusoutHandlers, pending, emitted, console, last>>

\* ------------------------------------------------------------------ requests
\* Besides the request object handed to the service, a request in flight
\* carries one history field, overtaken: a request issued after it has
\* meanwhile delivered a result.
NoLocation == UndefAddress
PredictionRequest(input, cr, types) ==
    [svc |-> "getPlacePredictions", input |-> input, offset |-> Len(input),
     componentRestrictions |-> cr, types |-> types,
     fields |-> Absent, placeId |-> Absent, reference |-> Absent,
     location |-> NoLocation, overtaken |-> FALSE]
DetailsRequest(pid, ref) ==
    [svc |-> "getDetails", input |-> EmptyText, offset |-> 0,
     componentRestrictions |-> Absent, types |-> Absent,
     fields |-> defaultPlacesFields, placeId |-> pid, reference |-> ref,
     location |-> NoLocation, overtaken |-> FALSE]
GeocodeRequest(loc) ==
    [svc |-> "geocode", input |-> EmptyText, offset |-> 0,
     componentRestrictions |-> Absent, types |-> Absent,
     fields |-> Absent, placeId |-> Absent, reference |-> Absent,
     location |-> loc, overtaken |-> FALSE]

WithinBounds(p) == Len(p) <= MaxPending

RemoveAt(s, i) == [j \in 1..(Len(s) - 1) |-> IF j < i THEN s[j] ELSE s[j + 1]]

\* the requests left in flight when request i has called back with the
\* result res (Undef when it delivered none): the lookups issued before it
\* and still in flight have been overtaken
Overtake(p, i, res) ==
    RemoveAt([j \in 1..Len(p) |->
                 IF j < i /\ res # Undef /\ p[j].svc # "getPlacePredictions"
                 THEN [p[j] EXCEPT !.overtaken = TRUE] ELSE p[j]], i)

\* overtaken: the callback is that of a request which a later-issued one
\* had overtaken
Handler(op, status, res) ==
    [op |-> op, status |-> status, res |-> res, overtaken |-> FALSE]

\* ------------------------------------------------------------ link function
NoOpts == [types |-> Absent, bounds |-> Absent, componentRestrictions |-> Absent,
           fields |-> Absent]

\* new google.maps.places.Autocomplete(element[0], {}), then the default
\* fields when scope.options.fields is undefined
NewWidget(o) ==
    [types |-> Absent, bounds |-> Absent, componentRestrictions |-> Absent,
     fields |-> IF o.def /\ o.fields = Absent THEN defaultPlacesFields ELSE Absent,
     place |-> Undef]

\* scope.options.fields of an undefined scope.options throws a TypeError: the
\* rest of the link function (place_changed listener, $render, the watchers,
\* the submit listener) is never reached
LinkPhase(o) == IF o.def THEN "linked" ELSE "failed"

Init ==
    /\ options \in OptionsValues
    /\ placeId \in PlaceIds
    /\ initialAddress \in Addresses
    /\ ngModel \in Texts
    /\ viewValue = EmptyText
    /\ elementVal = EmptyText
    /\ details = Undef
    /\ watchEnter = FALSE
    /\ opts = NoOpts
    /\ gPlace = NewWidget(options)
    /\ phase = LinkPhase(options)
    /\ highlighted = Undef
    /\ focused = FALSE
    /\ focusoutHandlers = <<>>
    /\ pending = <<>>
    /\ emitted = <<>>
    /\ console = <<>>
    /\ last = Handler("link", "", Undef)

\* ------------------------------------------------------------------ initOpts
\* the local state initOpts works on
Config(we, op, gp) == [watchEnter |-> we, opts |-> op, gPlace |-> gp]

\* initOpts without its else branches: an omitted sub-option leaves the
\* widget's filter as it was
InitOpts_NoClear(o, c) ==
    IF o.def
    THEN [watchEnter |-> (o.watchEnter = "true"),
          opts |->
            [types |-> IF Truthy(o.types) THEN o.types ELSE c.opts.types,
             bounds |-> IF Truthy(o.bounds) THEN o.bounds ELSE c.opts.bounds,
             componentRestrictions |->
                IF Truthy(o.country) THEN o.country
                ELSE c.opts.componentRestrictions,
             fields |-> IF Truthy(o.fields) THEN o.fields ELSE c.opts.fields],
          gPlace |->
            [types |-> IF Truthy(o.types) THEN o.types ELSE c.gPlace.types,
             bounds |-> IF Truthy(o.bounds) THEN o.bounds ELSE c.gPlace.bounds,
             componentRestrictions |->
                IF Truthy(o.country) THEN o.country
                ELSE c.gPlace.componentRestrictions,
             fields |-> IF Truthy(o.fields) THEN o.fields ELSE c.gPlace.fields,
             place |-> c.gPlace.place]]
    ELSE c

InitOpts(o, c) ==
    IF o.def
    THEN [watchEnter |-> (o.watchEnter = "true"),
          opts |->
            [types |-> IF Truthy(o.types) THEN o.types ELSE c.opts.types,
             bounds |-> IF Truthy(o.bounds) THEN o.bounds ELSE c.opts.bounds,
             componentRestrictions |->
                IF Truthy(o.country) THEN o.country
                ELSE c.opts.componentRestrictions,
             fields |-> IF Truthy(o.fields) THEN o.fields ELSE c.opts.fields],
          gPlace |->
            [types |-> IF Truthy(o.types) THEN o.types ELSE EmptyArray,
             bounds |-> IF Truthy(o.bounds) THEN o.bounds ELSE Null,
             componentRestrictions |->
                IF Truthy(o.country) THEN o.country ELSE Null,
             fields |-> IF Truthy(o.fields) THEN o.fields ELSE Null,
             place |-> c.gPlace.place]]
    ELSE c

\* ------------------------------------------------------- getPlaceDetails
\* getPlaceDetails keyed by the last prediction of the list
GetPlaceDetails_LastPrediction(pid, hasList, list) ==
    DetailsRequest(IF Truthy(pid) THEN pid ELSE Absent,
                   IF hasList THEN list[Len(list)].reference ELSE Absent)

\* the request getPlaceDetails(list) hands to placesService.getDetails;
\* hasList is FALSE for the call without an argument
GetPlaceDetails(pid, hasList, list) ==
    DetailsRequest(IF Truthy(pid) THEN pid ELSE Absent,
                   IF hasList THEN list[1].reference ELSE Absent)

\* ------------------------------------------------------------ initPlace
\* the requests in flight after initPlace()
InitPlace(pid, pend) ==
    IF Truthy(pid) THEN Append(pend, GetPlaceDetails(pid, FALSE, <<>>))
    ELSE pend

\* ---------------------------------------------------- initInitialAddress
WarnPlaceId == "Using PlaceId to configure the Autocomplete component."
WarnNoResults == "No results found"
WarnGeocoderFailed == "Geocoder failed due to: "

\* a coordinate is truthy unless it is 0
HasCoordinates(a) == a.def /\ a.lat # 0 /\ a.lng # 0

\* the requests in flight and the console after initInitialAddress()
InitInitialAddress(pid, a, pend) ==
    IF Truthy(pid) THEN [pending |-> pend, console |-> <<WarnPlaceId>>]
    ELSE IF HasCoordinates(a)
         THEN [pending |-> Append(pend, GeocodeRequest(a)), console |-> <<>>]
         ELSE [pending |-> pend, console |-> <<>>]

\* ------------------------------------------------------------------ digests
\* The first digest after linking: ngModel renders the bound value, then the
\* three watchers run once each, in the order they were registered.
FirstDigest ==
    /\ phase = "linked"
    /\ LET c == InitOpts(options, Config(watchEnter, opts, gPlace))
           p1 == InitPlace(placeId, pending)
           r == InitInitialAddress(placeId, initialAddress, p1)
       IN /\ WithinBounds(r.pending)
          /\ watchEnter' = c.watchEnter
          /\ opts' = c.opts
          /\ gPlace' = c.gPlace
          /\ pending' = r.pending
          /\ console' = r.console
    /\ phase' = "ready"
    /\ viewValue' = ngModel
    /\ elementVal' = ngModel
    /\ emitted' = <<>>
    /\ last' = Handler("firstDigest", "", Undef)
    /\ UNCHANGED <<options, placeId, initialAddress, ngModel, details,
                   highlighted, focused, focusoutHandlers>>

\* The host assigns new values to the watched bindings and a digest runs: the
\* watcher of each binding whose value changed (angular.equals) calls its
\* init function, in registration order: options, placeId, initialAddress.
Digest(o, pid, a) ==
    /\ phase = "ready"
    /\ <<o, pid, a>> # <<options, placeId, initialAddress>>
    /\ LET c == IF o # options
                THEN InitOpts(o, Config(watchEnter, opts, gPlace))
                ELSE Config(watchEnter, opts, gPlace)
           p1 == IF pid # placeId THEN InitPlace(pid, pending) ELSE pending
           r == IF a # initialAddress THEN InitInitialAddress(pid, a, p1)
                ELSE [pending |-> p1, console |-> <<>>]
       IN /\ WithinBounds(r.pending)
          /\ watchEnter' = c.watchEnter
          /\ opts' = c.opts
          /\ gPlace' = c.gPlace
          /\ pending' = r.pending
          /\ console' = r.console
    /\ options' = o
    /\ placeId' = pid
    /\ initialAddress' = a
    /\ emitted' = <<>>
    /\ last' = Handler("digest", "", Undef)
    /\ UNCHANGED <<phase, ngModel, viewValue, elementVal, details, highlighted,
                   focused, focusoutHandlers>>

\* ------------------------------------------------- the state handlers work on
State(d, m, v, e, p, f, h, em, co) ==
    [details |-> d, ngModel |-> m, viewValue |-> v, elementVal |-> e,
     pending |-> p, focused |-> f, focusoutHandlers |-> h, emitted |-> em,
     console |-> co, thrown |-> FALSE]

\* the current state, with the events and warnings of the step empty
Cur == State(details, ngModel, viewValue, elementVal, pending, focused,
             focusoutHandlers, <<>>, <<>>)

Apply(s) ==
    /\ WithinBounds(s.pending)
    /\ Len(s.focusoutHandlers) <= MaxHandlers
    /\ details' = s.details
    /\ ngModel' = s.ngModel
    /\ viewValue' = s.viewValue
    /\ elementVal' = s.elementVal
    /\ pending' = s.pending
    /\ focused' = s.focused
    /\ focusoutHandlers' = s.focusoutHandlers
    /\ emitted' = s.emitted
    /\ console' = s.console

\* controller.$setViewValue(v): the view value, committed to the bound model
SetViewValue(s, v) == [s EXCEPT !.viewValue = v, !.ngModel = v]

\* a focusout event whose handlers stay bound after they ran
FocusOutEvent_KeepHandlers(s) ==
    [s EXCEPT !.elementVal = IF s.focusoutHandlers = <<>> THEN s.elementVal
                             ELSE s.focusoutHandlers[Len(s.focusoutHandlers)]]

\* A focusout event on the element: every bound handler runs, in the order
\* bound; each writes its address into the field and unbinds all of them.
FocusOutEvent(s) ==
    [s EXCEPT !.elementVal = IF s.focusoutHandlers = <<>> THEN s.elementVal
                             ELSE s.focusoutHandlers[Len(s.focusoutHandlers)],
              !.focusoutHandlers = <<>>]

\* element[0].blur(): a focused element loses the focus
Blur(s) == IF s.focused THEN [FocusOutEvent(s) EXCEPT !.focused = FALSE] ELSE s

\* ------------------------------------------------------------------ getPlace
\* getPlace({name: name}); reading scope.options.types of an undefined
\* scope.options throws
GetPlace(s, name, o, op) ==
    IF Len(name) > 0
    THEN IF o.def
         THEN [s EXCEPT !.pending =
                 Append(@, PredictionRequest(name, op.componentRestrictions,
                           IF Truthy(o.types) THEN o.types ELSE EmptyArray))]
         ELSE [s EXCEPT !.thrown = TRUE]
    ELSE s

\* ------------------------------------------------- the place_changed listener
HasAddressComponents(result) == result.k # "undefined" /\ result.address_components

\* the listener committing the result's formatted address instead of the
\* text in the field
PlaceChanged_FormattedAddress(s, result, we, o, op) ==
    IF HasAddressComponents(result)
    THEN SetViewValue([s EXCEPT !.details = result], result.formatted_address)
    ELSE IF we
         THEN LET g == GetPlace(s, s.viewValue, o, op)
              IN IF g.thrown THEN g ELSE Blur(g)
         ELSE s

\* the listener looking the text up whatever watchEnter says
PlaceChanged_AlwaysLookup(s, result, we, o, op) ==
    IF HasAddressComponents(result)
    THEN SetViewValue([s EXCEPT !.details = result], s.elementVal)
    ELSE LET g == GetPlace(s, s.viewValue, o, op)
         IN IF g.thrown THEN g ELSE Blur(g)

PlaceChanged(s, result, we, o, op) ==
    IF HasAddressComponents(result)
    THEN SetViewValue([s EXCEPT !.details = result], s.elementVal)
    ELSE IF we
         THEN LET g == GetPlace(s, s.viewValue, o, op)
              IN IF g.thrown THEN g ELSE Blur(g)
         ELSE s

\* ------------------------------------------------- the keydown keypress handler
KeyHandler(s) == SetViewValue(s, s.elementVal)

\* --------------------------------------------------------------- callbacks
NoResultsEvent == "ngPlacesAutocomplete:no-results"

\* listentoresult(list, status)
ListenToResult(s, list, pid) ==
    IF list.isNull \/ Len(list.items) = 0
    THEN [s EXCEPT !.emitted = Append(@, NoResultsEvent), !.details = NullValue]
    ELSE [s EXCEPT !.pending = Append(@, GetPlaceDetails(pid, TRUE, list.items))]

\* a resolution that leaves a place already held by Details in place
Resolve_FirstResultWins(s, result) ==
    IF s.details.k = "place" THEN s
    ELSE [SetViewValue(s, result.formatted_address) EXCEPT
             !.elementVal = result.formatted_address,
             !.details = result,
             !.focusoutHandlers = Append(@, result.formatted_address)]

\* what both lookups do with a result that has a formatted address
Resolve(s, result) ==
    [SetViewValue(s, result.formatted_address) EXCEPT
        !.elementVal = result.formatted_address,
        !.details = result,
        !.focusoutHandlers = Append(@, result.formatted_address)]

\* detailsresult clearing Details when the lookup failed
DetailsResult_ClearOnFailure(s, detailsResult, status) ==
    IF status = "OK" THEN Resolve(s, detailsResult)
    ELSE [s EXCEPT !.details = NullValue]

\* detailsresult(detailsResult, placesServiceStatus)
DetailsResult(s, detailsResult, status) ==
    IF status = "OK" THEN Resolve(s, detailsResult) ELSE s

\* the geocode callback taking the last result of the list
GeocodeResult_LastResult(s, results, status) ==
    IF status = "OK"
    THEN IF Len(results) > 0 THEN Resolve(s, results[Len(results)])
         ELSE [s EXCEPT !.console = Append(@, WarnNoResults)]
    ELSE [s EXCEPT !.console = Append(@, WarnGeocoderFailed)]

\* the callback of geocoder.geocode
GeocodeResult(s, results, status) ==
    IF status = "OK"
    THEN IF Len(results) > 0 THEN Resolve(s, results[1])
         ELSE [s EXCEPT !.console = Append(@, WarnNoResults)]
    ELSE [s EXCEPT !.console = Append(@, WarnGeocoderFailed)]

Statuses == {"OK", "ZERO_RESULTS"}

\* ------------------------------------------------------------ user actions
UNCHANGED_config == UNCHANGED <<phase, options, placeId, initialAddress,
                                watchEnter, opts>>

Focus ==
    /\ phase # "linked"
    /\ ~focused
    /\ focused' = TRUE
    /\ emitted' = <<>>
    /\ console' = <<>>
    /\ last' = Handler("user", "", Undef)
    /\ UNCHANGED_config
    /\ UNCHANGED <<ngModel, viewValue, elementVal, details, gPlace, highlighted,
                   focusoutHandlers, pending>>

\* the user leaves the field
FocusOut ==
    /\ phase # "linked"
    /\ focused
    /\ Apply(Blur(Cur))
    /\ last' = Handler("focusout", "", Undef)
    /\ UNCHANGED_config
    /\ UNCHANGED <<gPlace, highlighted>>

\* the user edits the field text; inputEvent: the host framework's own input
\* listener commits the text to the bound value
UserType(t, inputEvent) ==
    /\ phase # "linked"
    /\ focused
    /\ t # elementVal
    /\ Apply(IF inputEvent THEN SetViewValue([Cur EXCEPT !.elementVal = t], t)
             ELSE [Cur EXCEPT !.elementVal = t])
    /\ highlighted' = Undef
    /\ last' = Handler("user", "", Undef)
    /\ UNCHANGED_config
    /\ UNCHANGED gPlace

\* the user moves the dropdown highlight onto a suggestion
Highlight(p) ==
    /\ phase = "ready"
    /\ focused
    /\ highlighted # p
    /\ highlighted' = p
    /\ emitted' = <<>>
    /\ console' = <<>>
    /\ last' = Handler("user", "", Undef)
    /\ UNCHANGED_config
    /\ UNCHANGED <<ngModel, viewValue, elementVal, details, gPlace, focused,
                   focusoutHandlers, pending>>

\* Enter with no suggestion selected: the key handler runs, then the widget
\* reports the place {name: text} through place_changed (when the listener
\* was registered)
PressEnter ==
    /\ phase # "linked"
    /\ focused
    /\ highlighted = Undef
    /\ IF phase = "ready"
       THEN /\ Apply(PlaceChanged(KeyHandler(Cur), NameOnly, watchEnter,
                                  options, opts))
            /\ gPlace' = [gPlace EXCEPT !.place = NameOnly]
       ELSE /\ Apply(KeyHandler(Cur))
            /\ UNCHANGED gPlace
    /\ last' = Handler("enter",
                       IF Len(pending') > Len(pending) THEN "lookup" ELSE "",
                       Undef)
    /\ UNCHANGED_config
    /\ UNCHANGED highlighted

\* the user picks a dropdown suggestion: the widget writes the suggestion's
\* text (taken to be the place's formatted address) into the field, holds the
\* place and emits place_changed
SelectSuggestion(p) ==
    /\ phase = "ready"
    /\ focused
    /\ Apply(PlaceChanged([Cur EXCEPT !.elementVal = p.formatted_address], p,
                          watchEnter, options, opts))
    /\ gPlace' = [gPlace EXCEPT !.place = p]
    /\ highlighted' = Undef
    /\ last' = Handler("select", "", p)
    /\ UNCHANGED_config

\* scope.$on('ngPlacesAutocomplete:submit'): place_changed is triggered on
\* the widget, whose getPlace() is the place it already holds
Submit ==
    /\ phase = "ready"
    /\ Apply(PlaceChanged(Cur, gPlace.place, watchEnter, options, opts))
    /\ last' = Handler("submit", "", gPlace.place)
    /\ UNCHANGED_config
    /\ UNCHANGED <<gPlace, highlighted>>

\* the host assigns the bound value; controller.$render shows it
HostSetModel(v) ==
    /\ phase = "ready"
    /\ v # ngModel
    /\ Apply([SetViewValue(Cur, v) EXCEPT !.elementVal = v])
    /\ last' = Handler("render", "", Undef)
    /\ UNCHANGED_config
    /\ UNCHANGED <<gPlace, highlighted>>

\* ------------------------------------------------- completions of requests
PredictionsDone(i, list) ==
    /\ pending[i].svc = "getPlacePredictions"
    /\ Apply(ListenToResult([Cur EXCEPT !.pending = RemoveAt(pending, i)],
                            list, placeId))
    /\ last' = Handler("listentoresult",
                       IF list.isNull THEN "null"
                       ELSE IF list.items = <<>> THEN "empty" ELSE "list",
                       IF list.items = <<>> THEN Undef ELSE list.items[1])
    /\ UNCHANGED_config
    /\ UNCHANGED <<gPlace, highlighted>>

DetailsDone(i, status, result) ==
    /\ pending[i].svc = "getDetails"
    /\ (status = "OK") <=> (result \in Places)
    /\ Apply(DetailsResult([Cur EXCEPT !.pending =
                                Overtake(pending, i, IF status = "OK"
                                                     THEN result ELSE Undef)],
                           result, status))
    /\ last' = [Handler("detailsresult", status, result) EXCEPT
                    !.overtaken = pending[i].overtaken]
    /\ UNCHANGED_config
    /\ UNCHANGED <<gPlace, highlighted>>

GeocodeDone(i, status, results) ==
    /\ pending[i].svc = "geocode"
    /\ status # "OK" => results = <<>>
    /\ Apply(GeocodeResult([Cur EXCEPT !.pending =
                                Overtake(pending, i,
                                         IF results = <<>> THEN Undef
                                         ELSE results[1])],
                           results, status))
    /\ last' = [Handler("geocode", status,
                        IF results = <<>> THEN Undef ELSE results[1]) EXCEPT
                    !.overtaken = pending[i].overtaken]
    /\ UNCHANGED_config
    /\ UNCHANGED <<gPlace, highlighted>>

\* --------------------------------------------------------- specifications
\* The selection flows of a field without PlaceId and InitialAddress: the
\* user's actions, the host's options changes, and the completions of the
\* prediction and details requests.
InitSelect ==
    /\ Init
    /\ options \in HostOptions
    /\ placeId = Absent
    /\ initialAddress = UndefAddress

NextSelect ==
    \/ FirstDigest
    \/ \E o \in HostOptions : Digest(o, placeId, initialAddress)
    \/ Focus
    \/ FocusOut
    \/ \E t \in Texts, inputEvent \in BOOLEAN : UserType(t, inputEvent)
    \/ PressEnter
    \/ \E p \in Places : SelectSuggestion(p)
    \/ \E v \in Texts : HostSetModel(v)
    \/ \E i \in DOMAIN pending, list \in PredictionLists : PredictionsDone(i, list)
    \/ \E i \in DOMAIN pending, status \in Statuses, result \in Places \cup {NullValue} :
          DetailsDone(i, status, result)

Spec == InitSelect /\ [][NextSelect]_vars

\* The selection flows of a field whose options the host leaves alone, with
\* the host's submit signal.
NextReemit ==
    \/ FirstDigest
    \/ Focus
    \/ FocusOut
    \/ \E t \in Texts, inputEvent \in BOOLEAN : UserType(t, inputEvent)
    \/ PressEnter
    \/ \E p \in Places : SelectSuggestion(p)
    \/ Submit
    \/ \E v \in Texts : HostSetModel(v)
    \/ \E i \in DOMAIN pending, list \in PredictionLists : PredictionsDone(i, list)
    \/ \E i \in DOMAIN pending, status \in Statuses, result \in Places \cup {NullValue} :
          DetailsDone(i, status, result)

SpecReemit == InitSelect /\ [][NextReemit]_vars

\* The selection flows with the host's submit signal and the dropdown
\* highlight the user moves.
NextSubmit ==
    \/ NextSelect
    \/ Submit
    \/ \E p \in Places : Highlight(p)

SpecSubmit == InitSelect /\ [][NextSubmit]_vars

\* The initial value resolver: the host's PlaceId and InitialAddress
\* bindings, the digests their changes cause and the completions of the
\* details and reverse-geocode requests.
NoOptions == [def |-> TRUE, types |-> Absent, bounds |-> Absent,
              country |-> Absent, fields |-> Absent, watchEnter |-> Absent]

InitInitial ==
    /\ Init
    /\ options = NoOptions

NextInitial ==
    \/ FirstDigest
    \/ \E pid \in PlaceIds, a \in Addresses : Digest(options, pid, a)
    \/ Focus
    \/ FocusOut
    \/ \E t \in Texts, inputEvent \in BOOLEAN : UserType(t, inputEvent)
    \/ \E i \in DOMAIN pending, status \in Statuses, result \in Places \cup {NullValue} :
          DetailsDone(i, status, result)
    \/ \E i \in DOMAIN pending, status \in Statuses, results \in GeocodeLists :
          GeocodeDone(i, status, results)

SpecInitial == InitInitial /\ [][NextInitial]_vars

\* The configuration synchronizer: every options value the host can assign,
\* and Enter pressed on the text the field was given.
InitOptions ==
    /\ Init
    /\ placeId = Absent
    /\ initialAddress = UndefAddress

NextOptions ==
    \/ FirstDigest
    \/ \E o \in OptionsValues : Digest(o, placeId, initialAddress)
    \/ Focus
    \/ PressEnter

SpecOptions == InitOptions /\ [][NextOptions]_vars

\* The Enter path of a field whose PlaceId the host binds and changes:
\* options {watchEnter: true}, no InitialAddress.
EnterOptions == [NoOptions EXCEPT !.watchEnter = "true"]

InitKeyed ==
    /\ Init
    /\ options = EnterOptions
    /\ initialAddress = UndefAddress

NextKeyed ==
    \/ FirstDigest
    \/ \E pid \in PlaceIds : Digest(options, pid, initialAddress)
    \/ Focus
    \/ \E t \in Texts, inputEvent \in BOOLEAN : UserType(t, inputEvent)
    \/ PressEnter
    \/ \E i \in DOMAIN pending, list \in PredictionLists : PredictionsDone(i, list)
    \/ \E i \in DOMAIN pending, status \in Statuses, result \in Places \cup {NullValue} :
          DetailsDone(i, status, result)

SpecKeyed == InitKeyed /\ [][NextKeyed]_vars

\* ------------------------------------------------------------------ claims

SelectionEmitted ==
    /\ last.op \in {"select", "submit"}
    /\ HasAddressComponents(last.res)

\* C2 (as claimed): right after place_changed with a place result that has
\* address components, Bound Value = displayed text = the result's formatted
\* address, and Details is the result.
C2_Original ==
    SelectionEmitted =>
        /\ ngModel = elementVal
        /\ elementVal = last.res.formatted_address
        /\ details = last.res

\* C2 (amended): right after place_changed with a place result that has
\* address components, Bound Value = the text displayed in the field
\* (whatever it is), and Details is the result.
C2_SelectionCommitsFieldText ==
    SelectionEmitted =>
        /\ ngModel = elementVal
        /\ viewValue = elementVal
        /\ details = last.res

\* the event was emitted for a place while the field shows other text
C2_Witness ==
    /\ SelectionEmitted
    /\ details = Place1
    /\ elementVal = TypedText
    /\ ngModel = TypedText

\* C3: a step in which Enter is pressed while watchEnter is false issues no
\* request (the requests in flight are as before), leaves the displayed text
\* alone and makes Bound Value the text displayed.
C3_PlainEnter ==
    [][(last'.op = "enter" /\ ~watchEnter) =>
          /\ pending' = pending
          /\ elementVal' = elementVal
          /\ ngModel' = elementVal
          /\ viewValue' = elementVal]_vars

\* Enter was pressed on typed text with watchEnter false, nothing in flight
C3_Witness ==
    /\ last.op = "enter"
    /\ ~watchEnter
    /\ phase = "ready"
    /\ elementVal = TypedText
    /\ ngModel = TypedText
    /\ pending = <<>>

\* C4 (as claimed): when Enter (watchEnter true) has issued a prediction
\* query and that query completes next with null or an empty list, Details
\* is null, exactly one no-results event is emitted, no details request is
\* issued, and the field still displays the text it displayed when Enter was
\* pressed (the query's input: the key handler committed the displayed text
\* and getPlace sent it).
C4_Original ==
    [][(/\ last.op = "enter" /\ last.status = "lookup"
        /\ last'.op = "listentoresult" /\ last'.status # "list"
        /\ pending' = RemoveAt(pending, Len(pending))) =>
          /\ details' = NullValue
          /\ emitted' = <<NoResultsEvent>>
          /\ elementVal' = pending[Len(pending)].input]_vars

\* C5: when listentoresult is given a non-empty list, the request issued
\* last is a details request whose reference is the first prediction's; when
\* detailsresult is given status OK, displayed text = Bound Value = the
\* result's formatted address and Details is the result.
C5_TopPredictionResolved ==
    /\ (last.op = "listentoresult" /\ last.status = "list") =>
          /\ pending # <<>>
          /\ pending[Len(pending)].svc = "getDetails"
          /\ pending[Len(pending)].reference = last.res.reference
    /\ (last.op = "detailsresult" /\ last.status = "OK") =>
          /\ elementVal = last.res.formatted_address
          /\ ngModel = last.res.formatted_address
          /\ viewValue = last.res.formatted_address
          /\ details = last.res

\* the details lookup of an Enter-triggered prediction has completed OK
C5_Witness ==
    /\ last.op = "detailsresult" /\ last.status = "OK"
    /\ watchEnter
    /\ gPlace.place = NameOnly
    /\ details = Place2
    /\ elementVal = Addr2
    /\ ngModel = Addr2

\* both bindings are supplied: a PlaceId, and an InitialAddress with both
\* coordinates
BothSupplied == Truthy(placeId) /\ HasCoordinates(initialAddress)

\* C6 (as claimed): while both PlaceId and InitialAddress are supplied, in
\* whichever order they were set, no reverse-geocode result determines the
\* displayed text, Bound Value and Details: the geocode callback never
\* applies a result.
C6_Original ==
    BothSupplied => ~(last.op = "geocode" /\ last.status = "OK" /\ last.res # Undef)

\* C7: when the geocode callback is given status OK and a non-empty list,
\* displayed text = Bound Value = the first result's formatted address and
\* Details is the first result.
C7_GeocodeResolved ==
    (last.op = "geocode" /\ last.status = "OK" /\ last.res # Undef) =>
        /\ elementVal = last.res.formatted_address
        /\ ngModel = last.res.formatted_address
        /\ viewValue = last.res.formatted_address
        /\ details = last.res

\* only InitialAddress is supplied and its reverse-geocode lookup returned
\* the list whose first result is Place2
C7_Witness ==
    /\ last.op = "geocode" /\ last.status = "OK"
    /\ placeId = Absent
    /\ HasCoordinates(initialAddress)
    /\ details = Place2
    /\ elementVal = Addr2
    /\ ngModel = Addr2

\* C8 (as claimed): right after the host's submit signal, received while the
\* widget has a suggestion highlighted, Details is that suggestion's place
\* and Bound Value = displayed text = the suggestion's text, as after a
\* click on it.
C8_Original ==
    (last.op = "submit" /\ highlighted # Undef) =>
        /\ details = highlighted
        /\ elementVal = highlighted.formatted_address
        /\ ngModel = elementVal

\* C9: a step in which detailsresult or the geocode callback is given a
\* status other than OK changes none of displayed text, Bound Value and
\* Details, binds no focusout handler and emits no event.
C9_FailedLookupSkipped ==
    [][(last'.op \in {"detailsresult", "geocode"} /\ last'.status # "OK") =>
          /\ elementVal' = elementVal
          /\ ngModel' = ngModel
          /\ viewValue' = viewValue
          /\ details' = details
          /\ focusoutHandlers' = focusoutHandlers
          /\ emitted' = <<>>]_vars

\* a details lookup failed after an earlier lookup had resolved Place1
C9_Witness ==
    /\ last.op = "detailsresult" /\ last.status # "OK"
    /\ details = Place1
    /\ elementVal = Addr1
    /\ ngModel = Addr1

\* C10 (as claimed): right after a lookup that yields no results (the
\* prediction callback given null or an empty list, the geocode callback
\* given OK and an empty list) Details holds no result (it is null).
C10_Original ==
    \/ /\ last.op = "listentoresult"
       /\ last.status # "list"
    \/ /\ last.op = "geocode"
       /\ last.status = "OK"
       /\ last.res = Undef
    => details.k # "place"

\* C11 (as claimed): whenever the current Options value does not supply
\* fields (after attachment, after the options watcher's initial run, after
\* any later Options change), the widget's field filter is the default list.
C11_Original ==
    (phase \in {"linked", "ready"} /\ options.def /\ options.fields = Absent) =>
        gPlace.fields = defaultPlacesFields

\* C12: when lookups overlap, no result is discarded as stale. A callback
\* that completes OK with a result while another lookup is in flight, or
\* after a lookup issued later than its own has already delivered a result,
\* writes Bound Value, displayed text and Details from its own result: the
\* state is that of the callback that completed last.
C12_LastCompletionWins ==
    (/\ last.op \in {"detailsresult", "geocode"}
     /\ last.status = "OK" /\ last.res # Undef
     /\ (last.overtaken \/ pending # <<>>)) =>
        /\ details = last.res
        /\ elementVal = last.res.formatted_address
        /\ viewValue = last.res.formatted_address
        /\ ngModel = last.res.formatted_address

\* the geocode lookup was issued first, the PlaceId lookup issued after it
\* delivered its result first, and the slower geocode result Place1 then
\* replaced it
C12_Witness ==
    /\ last.op = "geocode" /\ last.status = "OK"
    /\ last.overtaken
    /\ last.res = Place1
    /\ details = Place1
    /\ elementVal = Addr1
    /\ ngModel = Addr1

\* C13: the focus-out guard of a resolution fires at most once and is
\* discarded after firing. In every step in which the field loses the focus
\* (the user leaves it, or the Enter path blurs it), no guard remains bound
\* afterwards, and the displayed text changes only if a guard was bound, to
\* the address that guard holds: a focus-out with no guard bound, such as
\* the one after a guard has fired, rewrites nothing.
C13_GuardFiresOnce ==
    [][(focused /\ ~focused') =>
          /\ focusoutHandlers' = <<>>
          /\ elementVal' # elementVal =>
                 /\ focusoutHandlers # <<>>
                 /\ elementVal' = focusoutHandlers[Len(focusoutHandlers)]]_vars

\* the user left the field after a resolution to Place1 and an edit: the
\* guard has put the resolved address back over the typed text and is gone
C13_Witness ==
    /\ last.op = "focusout"
    /\ ~focused
    /\ details = Place1
    /\ viewValue = TypedText
    /\ elementVal = Addr1
    /\ focusoutHandlers = <<>>

\* C14 (as claimed): the guard puts the resolved address back only if the
\* field loses the focus before any further edit. When the field loses the
\* focus while a guard is bound and the displayed text is no longer the
\* address the guard holds (the user edited it, or a newer selection
\* changed it), the displayed text is left as it is.
C14_Original ==
    [][(/\ focused /\ ~focused'
        /\ focusoutHandlers # <<>>
        /\ elementVal # focusoutHandlers[Len(focusoutHandlers)]) =>
          elementVal' = elementVal]_vars

\* C15 (as claimed): the resolver is level-triggered on both inputs. Every
\* digest that changes PlaceId or InitialAddress and leaves PlaceId absent
\* and InitialAddress with both coordinates issues a reverse-geocode lookup
\* for the current InitialAddress, also when only PlaceId changed (it was
\* cleared) and InitialAddress stayed the same.
C15_Original ==
    [][(/\ last'.op = "digest"
        /\ placeId' = Absent
        /\ HasCoordinates(initialAddress')) =>
          pending' = Append(pending, GeocodeRequest(initialAddress'))]_vars

\* C16 (as claimed): whenever the InitialAddress watcher runs (first digest,
\* or a digest that changed InitialAddress) on an InitialAddress whose lat
\* and lng are both numbers, 0 included, while no PlaceId is bound, it
\* issues a reverse-geocode lookup for that location.
C16_Original ==
    [][(/\ \/ last'.op = "firstDigest"
           \/ last'.op = "digest" /\ initialAddress' # initialAddress
        /\ initialAddress'.def
        /\ placeId' = Absent) =>
          pending' = Append(pending, GeocodeRequest(initialAddress'))]_vars

\* C17 (as claimed): once the options watcher has run, the local watchEnter
\* flag is true exactly when the current Options value is defined and has
\* watchEnter === true; it is false when the current Options value is
\* undefined or omits watchEnter, whatever an earlier value had.
C17_Original ==
    phase = "ready" =>
        (watchEnter <=> (options.def /\ options.watchEnter = "true"))

\* C18 (as claimed): the prediction query issued on the Enter path carries
\* the restrictions of the current Options value: its country restriction
\* is the current Options.country (absent when that is omitted) and its type
\* filter the current Options.types (no filter when that is omitted).
C18_Original ==
    (last.op = "enter" /\ last.status = "lookup") =>
        /\ pending[Len(pending)].componentRestrictions = options.country
        /\ pending[Len(pending)].types =
              IF options.types = Absent THEN EmptyArray ELSE options.types

\* C19 (as claimed): every details request carries exactly one lookup key,
\* either the placeId (a PlaceId lookup) or the reference of the first
\* prediction (an Enter-path lookup), never both, also when a PlaceId is
\* bound at the time Enter is pressed.
C19_Original ==
    \A i \in DOMAIN pending :
        pending[i].svc = "getDetails" =>
            (pending[i].placeId = Absent) # (pending[i].reference = Absent)

====
